---- MODULE Spec2Model ----
(***************************************************************************)
(* Model of the youtube-mcp-server gateway.  The repository holds five     *)
(* deployments of the same Express server:                                 *)
(*   "manifest"  src/server.js 1-169      static manifest + REST routes    *)
(*   "rpc"       src/server.js 171-385    JSON-RPC dispatcher with         *)
(*                                        notifications and initialize     *)
(*   "basic"     src/unnamed/part_000     JSON-RPC dispatcher, first cut   *)
(*   "csv"       src/unnamed/part_002     CSV-backed dispatcher (the same  *)
(*                                        code is src/unnamed/part_001     *)
(*                                        1-207)                           *)
(*   "discovery" src/unnamed/part_001 209-385  manifest over JSON-RPC      *)
(* A behaviour fixes one deployment and its configuration in Init and then *)
(* serves HTTP requests.  Synchronous JavaScript runs to completion, so a  *)
(* middleware or a handler up to its first await is one action.            *)
(*                                                                         *)
(* Spec         every deployment, request by request; a backend call is    *)
(*              one step from the await to the handler's end               *)
(* SpecBackend  the CSV deployment on the rows of a sheet, one tools/call  *)
(*              at a time, for every sheet, query and limit                *)
(* SpecShared   the CSV deployment with several tools/call handlers in     *)
(*              flight, run in turns at every await                        *)
(* SpecHeartbeat the CSV deployment with its keepalive heartbeat running   *)
(*              beside the tools/call handlers, under the fairness the     *)
(*              event loop gives timers and settled fetches                *)
(***************************************************************************)
EXTENDS Integers, Sequences, FiniteSets, TLC

VARIABLES
    variant,    \* which deployment is running
    secret,     \* AUTH_SECRET: process.env.MCP_AUTH_TOKEN, or Undefined
    tools,      \* the tool catalog (the module-level const tools / manifest.tools)
    gate,       \* the request the middleware chain is working on, with its decision
    pending,    \* handlers suspended at an await: their live local variables
    last,       \* the exchange that has just ended: request, replies, backend calls
    sheet,      \* the rows of the published sheet, as loadVideos reads them
    flight,     \* tools/call handlers of the CSV deployment, await by await
    heap,       \* the arrays loadVideos has made for the handlers in flight
    answer,     \* the tools/call of the CSV deployment that was answered last
    publicUrl,  \* PUBLIC_URL: process.env.PUBLIC_URL, or Undefined
    beat        \* the keepalive heartbeat: its pings in flight and its timers

vars ==
    <<variant, secret, tools, gate, pending, last, sheet, flight, heap, answer,
      publicUrl, beat>>

\* what the heartbeat of the CSV deployment adds to the state
hbVars == <<publicUrl, beat>>

\* what the await-by-await view of the CSV deployment adds to the state
csvVars == <<flight, heap, answer>>

(***************************************************************************)
(* Bounds                                                                  *)
(***************************************************************************)
MaxPending == 1     \* handlers that may be suspended at an await at once
MaxRows == 3        \* rows of a sheet
LongRows == 12      \* rows of the one sheet that is longer than the default limit
MaxLimit == 2       \* the limits a caller asks for
MaxInFlight == 2    \* CSV handlers followed await by await at once

(***************************************************************************)
(* JavaScript values.  undefined, null, numbers and strings are kept apart *)
(* by name: "absent" is undefined (a key the JSON body does not have).     *)
(***************************************************************************)
Undefined == "absent"

\* id: undefined, null, 0, 1, "" and "a"
IdValues == {"absent", "null", "n0", "n1", "s_", "sa"}

\* JavaScript truthiness of an id value: undefined, null, 0 and "" are falsy
Truthy(v) == v \notin {"absent", "null", "n0", "s_"}

\* id || null
OrNull(v) == IF Truthy(v) THEN v ELSE "null"

JsonRpcValues == {"2.0", "1.0", "absent"}

\* A method name is the sequence of its "/"-separated segments; << >> is undefined.
Methods ==
    { <<"initialize">>, <<"tools", "list">>, <<"tools", "call">>,
      <<"notifications", "initialized">>, <<"foo">>, << >> }

ToolNames ==
    { "youtube_search", "youtube_get_video", "search_ou_videos",
      "get_videos_by_sport", "get_recent_videos", "nope", "absent" }

\* params.arguments: undefined, {} or an object with every declared field
ArgValues == {"absent", "empty", "full"}

\* The JSON-RPC envelopes POSTed to /mcp.  params matters to tools/call alone, so
\* the other methods are sent without it.
Envelopes ==
    { e \in [jsonrpc : JsonRpcValues, id : IdValues, method : Methods,
             hasParams : BOOLEAN, name : ToolNames, args : ArgValues] :
        /\ e.method # <<"tools", "call">> => ~e.hasParams
        /\ ~e.hasParams => (e.name = "absent" /\ e.args = "absent")
        /\ e.name \in {"nope", "absent"} => e.args = "absent" }

NoEnvelope ==
    [jsonrpc |-> "absent", id |-> "absent", method |-> << >>,
     hasParams |-> FALSE, name |-> "absent", args |-> "absent"]

Verbs == {"GET", "POST"}

Paths ==
    { "/mcp", "/mcp/", "/manifest.json", "/manifest", "/mcp/manifest",
      "/mcp/manifest.json", "/youtube/search", "/youtube/get", "/health", "/other" }

\* An Authorization header is the sequence of its pieces; << >> is no header.
AuthHeaders == { << >>, <<"Bearer ", "s3cret">>, <<"Bearer ", "undefined">> }

\* the paths requests are POSTed to; every path is requested with GET
PostPaths == {"/mcp", "/mcp/manifest", "/youtube/search", "/youtube/get", "/other"}

HttpRequests ==
    { r \in [verb : Verbs, path : Paths, auth : AuthHeaders] :
        r.verb = "POST" => r.path \in PostPaths }

(***************************************************************************)
(* Replies.  One record shape for every reply a handler can send.          *)
(***************************************************************************)
NoResult == [shape |-> "absent", items |-> << >>]
NoError == [code |-> 0, message |-> << >>]

\* res.json of a JSON-RPC object; a key whose value is undefined is not serialised
RpcBody(st, id, result, error) ==
    [status |-> st, body |-> "jsonrpc", jsonrpc |-> "2.0", id |-> id,
     result |-> result, error |-> error, plain |-> << >>]

RpcResult(id, shape, items) ==
    RpcBody(200, id, [shape |-> shape, items |-> items], NoError)

RpcError(st, id, code, message) ==
    RpcBody(st, id, NoResult, [code |-> code, message |-> message])

\* res.json / res.send of anything that is not a JSON-RPC object
PlainBody(st, kind, what) ==
    [status |-> st, body |-> kind, jsonrpc |-> "absent", id |-> "absent",
     result |-> NoResult, error |-> NoError, plain |-> what]

\* res.status(200).end()
EmptyAck == PlainBody(200, "empty", << >>)

Unauthorized == PlainBody(401, "json", <<"error", "Unauthorized">>)

HasResult(r) == r.result.shape # "absent"
HasError(r) == r.error.code # 0


(***************************************************************************)
(* Configuration and the tool catalog                                      *)
(***************************************************************************)
Variants == {"manifest", "rpc", "basic", "csv", "discovery"}

\* process.env.MCP_AUTH_TOKEN is a string or undefined; the CSV deployment never
\* reads it.
Configs ==
    { <<"manifest", "s3cret">>, <<"manifest", Undefined>>,
      <<"rpc", "s3cret">>,
      <<"basic", "s3cret">>, <<"discovery", "s3cret">>, <<"csv", Undefined>> }

YoutubeTools ==
    << [name |-> "youtube_search", required |-> "query"],
       [name |-> "youtube_get_video", required |-> "videoId"] >>

\* ./tools.js of the CSV deployment: the three tools its dispatcher binds
CsvTools ==
    << [name |-> "search_ou_videos", required |-> "query"],
       [name |-> "get_videos_by_sport", required |-> "sport"],
       [name |-> "get_recent_videos", required |-> "none"] >>

Catalog(v) == IF v = "csv" THEN CsvTools ELSE YoutubeTools

\* what JSON.stringify writes for the catalog: its descriptors, in array order
Names(tl) == [i \in 1..Len(tl) |-> tl[i].name]

(***************************************************************************)
(* AuthGate: the auth middleware                                           *)
(***************************************************************************)
\* `${x}`: undefined is written as the text "undefined"
TemplateString(x) == IF x = Undefined THEN "undefined" ELSE x

\* `Bearer ${AUTH_SECRET}`
BearerOf(s) == <<"Bearer ", TemplateString(s)>>

OpenPathsMutant(v) ==
    IF v \in {"manifest", "discovery"}
    THEN {"/manifest.json", "/manifest", "/mcp/manifest", "/mcp/manifest.json"}
    ELSE {"/manifest.json", "/manifest"}

OpenPaths(v) ==
    IF v \in {"manifest", "discovery"}
    THEN {"/manifest.json", "/manifest", "/mcp", "/mcp/", "/mcp/manifest",
          "/mcp/manifest.json"}
    ELSE {"/mcp", "/mcp/", "/manifest.json", "/manifest"}

HasAuthMiddleware(v) == v # "csv"

\* a bug that accepts any Bearer header
AuthMiddlewareMutant(v, s, req) ==
    IF ~HasAuthMiddleware(v) \/ req.path \in OpenPaths(v) THEN "next"
    ELSE IF req.auth = << >> \/ req.auth[1] # "Bearer " THEN "reject"
    ELSE "next"

\* "next": the request goes on to the routes; "reject": 401 is sent
AuthMiddleware(v, s, req) ==
    IF ~HasAuthMiddleware(v) \/ req.path \in OpenPaths(v) THEN "next"
    ELSE IF req.auth = << >> \/ req.auth # BearerOf(s) THEN "reject"
    ELSE "next"

(***************************************************************************)
(* What a handler does up to its first await, or up to its end             *)
(***************************************************************************)
NoCall == [route |-> "none", id |-> "absent", name |-> "absent", args |-> "absent"]

\* the handler returned: it sent the replies in out
Done(out) == [kind |-> "done", out |-> out, call |-> NoCall]

\* the handler reached await fetch(...): it is suspended with these locals
Await(route, id, name, args) ==
    [kind |-> "await", out |-> << >>,
     call |-> [route |-> route, id |-> id, name |-> name, args |-> args]]

\* the async handler threw outside any try: its promise is rejected
Throw == [kind |-> "throw", out |-> << >>, call |-> NoCall]

StartsWith(m, prefix) == Len(m) >= 2 /\ m[1] = prefix

UnknownMethod(m) == <<"Unknown method">> \o (IF m = << >> THEN <<"undefined">> ELSE m)

InvalidRequestCode == -32600
NotFoundCode == -32601
ApplicationErrorCode == -32000

HandshakeResult == <<"2025-06-18", "youtube-mcp-server", "1.0.0", "tools">>

\* tools/call of the YouTube deployments: const { name, arguments: args } = params
CallYoutube(e, shape) ==
    IF ~e.hasParams THEN Throw
    ELSE IF e.name \in {"youtube_search", "youtube_get_video"}
         THEN IF e.args = "absent" THEN Throw
              ELSE Await(shape, e.id, e.name, e.args)
         ELSE Done(<<RpcError(200, e.id, NotFoundCode, <<"Unknown tool">>)>>)


(***************************************************************************)
(* The POST /mcp handlers, up to the first await                           *)
(***************************************************************************)
\* a bug that takes the prefix for a notification only when the id is absent too
IsNotificationMutant(e) ==
    e.method # << >> /\ StartsWith(e.method, "notifications") /\ e.id = "absent"

\* method && method.startsWith("notifications/")
IsNotification(e) == e.method # << >> /\ StartsWith(e.method, "notifications")

\* a bug that filters the catalog it lists
ListToolsMutant(id, tl) == RpcResult(id, "tools", Names(SubSeq(tl, 1, 1)))

\* result: { tools }
ListTools(id, tl) == RpcResult(id, "tools", Names(tl))

\* a bug that sends tools/list to wait behind a backend call
McpRpcMutant(e, tl) ==
    IF IsNotification(e) THEN Done(<<EmptyAck>>)
    ELSE IF e.jsonrpc # "2.0" \/ e.id = "absent"
    THEN Done(<<RpcError(200, OrNull(e.id), InvalidRequestCode, <<"Invalid Request">>)>>)
    ELSE IF e.method = <<"initialize">>
    THEN Done(<<RpcResult(e.id, "handshake", HandshakeResult)>>)
    ELSE IF e.method = <<"tools", "list">> THEN Await("mcp", e.id, "absent", "absent")
    ELSE IF e.method = <<"tools", "call">> THEN CallYoutube(e, "mcp")
    ELSE Done(<<RpcError(200, e.id, NotFoundCode, UnknownMethod(e.method))>>)

\* src/server.js 258-345
McpRpc(e, tl) ==
    IF IsNotification(e) THEN Done(<<EmptyAck>>)
    ELSE IF e.jsonrpc # "2.0" \/ e.id = "absent"
    THEN Done(<<RpcError(200, OrNull(e.id), InvalidRequestCode, <<"Invalid Request">>)>>)
    ELSE IF e.method = <<"initialize">>
    THEN Done(<<RpcResult(e.id, "handshake", HandshakeResult)>>)
    ELSE IF e.method = <<"tools", "list">> THEN Done(<<ListTools(e.id, tl)>>)
    ELSE IF e.method = <<"tools", "call">> THEN CallYoutube(e, "mcp")
    ELSE Done(<<RpcError(200, e.id, NotFoundCode, UnknownMethod(e.method))>>)

\* src/unnamed/part_000 76-123
McpBasic(e, tl) ==
    IF e.jsonrpc # "2.0" \/ ~Truthy(e.id)
    THEN Done(<<RpcError(200, OrNull(e.id), InvalidRequestCode, <<"Invalid Request">>)>>)
    ELSE IF e.method = <<"tools", "list">> THEN Done(<<ListTools(e.id, tl)>>)
    ELSE IF e.method = <<"tools", "call">> THEN CallYoutube(e, "mcp")
    ELSE Done(<<RpcError(200, e.id, NotFoundCode, UnknownMethod(e.method))>>)

\* catch (err) { res.json({ ..., error: { code: -32000, message: err.message } }) }
CsvCatch(id, message) == Done(<<RpcError(200, id, ApplicationErrorCode, message)>>)

\* src/unnamed/part_002 112-170 (and src/unnamed/part_001 119-177)
McpCsv(e, tl) ==
    IF ~Truthy(e.id)
    THEN Done(<<RpcBody(200, "absent", [shape |-> "null", items |-> << >>], NoError)>>)
    ELSE IF e.method = <<"tools", "list">> THEN Done(<<ListTools(e.id, tl)>>)
    ELSE IF e.method = <<"tools", "call">>
    THEN IF ~e.hasParams
         THEN CsvCatch(e.id, <<"TypeError", "params">>)
         ELSE IF e.name \in {"search_ou_videos", "get_videos_by_sport", "get_recent_videos"}
         THEN Await("mcp", e.id, e.name, IF e.args = "absent" THEN "empty" ELSE e.args)
         ELSE Done(<<RpcError(200, e.id, NotFoundCode, <<"Unknown tool">>)>>)
    ELSE Done(<<RpcError(200, e.id, NotFoundCode, <<"Unknown method">>)>>)

\* src/unnamed/part_001 292-311
McpDiscovery(e, tl) ==
    IF e.jsonrpc # "2.0" \/ ~Truthy(e.id)
    THEN Done(<<RpcError(400, OrNull(e.id), InvalidRequestCode, <<"Invalid Request">>)>>)
    ELSE Done(<<RpcResult(e.id, "manifest", Names(tl))>>)

\* the handler Express runs for POST /mcp in each deployment
HasMcpHandler(v) == v # "manifest"

McpHandler(v, e, tl) ==
    CASE v = "rpc" -> McpRpc(e, tl)
      [] v = "basic" -> McpBasic(e, tl)
      [] v = "csv" -> McpCsv(e, tl)
      [] OTHER -> McpDiscovery(e, tl)


(***************************************************************************)
(* Backends: what the awaited fetch brings back, and what is made of it    *)
(***************************************************************************)
\* Outcomes of fetch(url) against the YouTube API: the promise rejects, or it
\* resolves with a status and a body (node-fetch resolves on every status).
YoutubeFetches ==
    { [net |-> "fail", status |-> 0, body |-> "none"],
      [net |-> "ok", status |-> 200, body |-> "items"],
      [net |-> "ok", status |-> 200, body |-> "noitems"],
      [net |-> "ok", status |-> 403, body |-> "errorjson"],
      [net |-> "ok", status |-> 502, body |-> "garbage"] }

\* Outcomes of fetch(CSV_URL)
CsvFetches ==
    { [net |-> "fail", status |-> 0, body |-> "none"],
      [net |-> "ok", status |-> 200, body |-> "csv"],
      [net |-> "ok", status |-> 200, body |-> "badcsv"],
      [net |-> "ok", status |-> 404, body |-> "html"] }

Returned(value, isNull) ==
    [ok |-> TRUE, value |-> value, isNull |-> isNull, message |-> << >>]

Raised(message) ==
    [ok |-> FALSE, value |-> << >>, isNull |-> FALSE, message |-> message]

\* await fetch(url); await response.json(): the parsed body, or the error raised
FetchJson(fr) ==
    IF fr.net = "fail" THEN Raised(<<"FetchError", "request failed">>)
    ELSE IF fr.body = "garbage" THEN Raised(<<"FetchError", "invalid json">>)
    ELSE Returned(IF fr.body = "items" THEN <<"vid1", "vid2">> ELSE << >>,
                  fr.body # "items")

\* youtubeSearch: return data.items || []
youtubeSearch(fr) ==
    LET data == FetchJson(fr) IN
    IF ~data.ok THEN data ELSE Returned(data.value, FALSE)

\* youtubeGetVideo: return data.items?.[0] || null
youtubeGetVideo(fr) ==
    LET data == FetchJson(fr) IN
    IF ~data.ok THEN data
    ELSE IF data.isNull THEN Returned(<< >>, TRUE)
    ELSE Returned(<<Head(data.value)>>, FALSE)

(***************************************************************************)
(* The sheet.  A row is known by its key; Row gives the cells csv-parse     *)
(* reads for it.  A string is the sequence of its pieces: a piece is one    *)
(* character, or a stretch of characters that no split, trim or test of the *)
(* code looks into.                                                        *)
(***************************************************************************)
\* "junk" is what csv-parse makes of a page that is no sheet: a row that has
\* none of the columns rows.map reads.
RowKeys == {"a", "b", "c", "junk"}

\* a cell of a row: the column's text, or undefined when the row has no such column
Cell(text) == [has |-> TRUE, text |-> text]
NoCell == [has |-> FALSE, text |-> << >>]

\* the rows csv-parse returns with columns: true
Row(k) ==
    CASE k = "a" ->
           [url |-> Cell(<<"https://www.youtube.com/", "watch?v=", "ida", "&", "t=1", " ">>),
            title |-> Cell(<<"G", "o">>),
            published |-> "2024-01-01",
            description |-> Cell(<< >>)]
      [] k = "b" ->
           [url |-> Cell(<<"https://", "youtu.be/", "idb", "?", "t=1">>),
            title |-> Cell(<<"U">>),
            published |-> "2023-06-01",
            description |-> Cell(<<"G", "o", "!">>)]
      [] k = "c" ->
           [url |-> Cell(<<"https://vimeo.com/", "1">>),
            title |-> Cell(<<" ", "O", "u">>),
            published |-> "2025-03-01",
            description |-> Cell(<<" ", "g", "o", "u">>)]
      [] OTHER ->
           [url |-> NoCell, title |-> NoCell, published |-> Undefined,
            description |-> NoCell]

\* String.prototype.toLowerCase
ToLowerChar(ch) ==
    CASE ch = "G" -> "g" [] ch = "O" -> "o" [] ch = "U" -> "u" [] OTHER -> ch

toLowerCase(str) == [i \in 1..Len(str) |-> ToLowerChar(str[i])]

\* String.prototype.includes
includes(str, q) ==
    \E i \in 0..(Len(str) - Len(q)) : SubSeq(str, i + 1, i + Len(q)) = q

\* String.prototype.trim
RECURSIVE trim(_)
trim(str) ==
    IF str = << >> THEN str
    ELSE IF Head(str) = " " THEN trim(Tail(str))
    ELSE IF str[Len(str)] = " " THEN trim(SubSeq(str, 1, Len(str) - 1))
    ELSE str

\* String.prototype.split(sep), sep one piece: the parts between its occurrences
RECURSIVE split(_, _)
split(str, sep) ==
    IF \A i \in 1..Len(str) : str[i] # sep THEN <<str>>
    ELSE LET at == CHOOSE i \in 1..Len(str) :
                       str[i] = sep /\ \A j \in 1..(i - 1) : str[j] # sep IN
         <<SubSeq(str, 1, at - 1)>> \o split(SubSeq(str, at + 1, Len(str)), sep)

\* row.url?.trim() || "", row["OU Sooners videos"]?.trim() || ""
TrimOrEmpty(cell) == IF cell.has THEN trim(cell.text) ELSE << >>

\* row["description"] || ""
OrEmpty(cell) == IF cell.has THEN cell.text ELSE << >>

\* row["published date"] || ""
DateOrEmpty(x) == IF x = Undefined THEN "" ELSE x

\* the characters /[^\w\s]/ matches among those the sheet uses
Punctuation == {"!", "?", "&"}

\* description.toLowerCase().replace(/[^\w\s]/g, "").split(/\s+/).filter(Boolean)
TagsOf(description) ==
    SelectSeq(split(SelectSeq(toLowerCase(description), LAMBDA ch : ch \notin Punctuation),
                    " "),
              LAMBDA word : word # << >>)

\* the youtube_id rows.map reads from the url
YoutubeIdOf(url) ==
    IF includes(url, <<"watch?v=">>) THEN split(split(url, "watch?v=")[2], "&")[1]
    ELSE IF includes(url, <<"youtu.be/">>) THEN split(split(url, "youtu.be/")[2], "?")[1]
    ELSE << >>

\* row => ({ youtube_id, title, url, published_at, tags })
MapRow(row) ==
    LET url == TrimOrEmpty(row.url) IN
    [youtube_id |-> YoutubeIdOf(url),
     title |-> TrimOrEmpty(row.title),
     url |-> url,
     published_at |-> DateOrEmpty(row.published),
     tags |-> TagsOf(OrEmpty(row.description))]

\* new Date(published_at): the time value, in days, or NaN
NaN == [nan |-> TRUE, t |-> 0]
Time(t) == [nan |-> FALSE, t |-> t]

DateOf(str) ==
    CASE str = "2023-06-01" -> Time(19509)
      [] str = "2024-01-01" -> Time(19723)
      [] str = "2025-03-01" -> Time(20148)
      [] OTHER -> NaN

\* (a, b) => new Date(b.published_at) - new Date(a.published_at)
ByDate(a, b) ==
    LET db == DateOf(b.published_at)
        da == DateOf(a.published_at) IN
    IF db.nan \/ da.nan THEN NaN ELSE Time(db.t - da.t)

\* Array.prototype.sort calls the comparator and takes NaN for +0
SortCompare(x, y) == LET v == ByDate(x, y) IN IF v.nan THEN 0 ELSE v.t

(***************************************************************************)
(* Array.prototype.sort as V8 runs it on an array shorter than 64: it      *)
(* finds the run the array starts with, reverses it when it is strictly    *)
(* descending, and inserts the other elements by binary insertion.         *)
(***************************************************************************)
\* the last index of the run that starts the array
RECURSIVE RunEnd(_, _, _)
RunEnd(arr, descending, idx) ==
    IF idx > Len(arr) THEN Len(arr)
    ELSE LET order == SortCompare(arr[idx], arr[idx - 1]) IN
         IF (descending /\ order >= 0) \/ (~descending /\ order < 0) THEN idx - 1
         ELSE RunEnd(arr, descending, idx + 1)

Reverse(arr) == [i \in 1..Len(arr) |-> arr[Len(arr) + 1 - i]]

\* where the pivot goes among arr[left .. right-1]
RECURSIVE InsertionPoint(_, _, _, _)
InsertionPoint(arr, pivot, left, right) ==
    IF left >= right THEN left
    ELSE LET mid == left + ((right - left) \div 2) IN
         IF SortCompare(pivot, arr[mid]) < 0
         THEN InsertionPoint(arr, pivot, left, mid)
         ELSE InsertionPoint(arr, pivot, mid + 1, right)

RECURSIVE BinaryInsertionSort(_, _)
BinaryInsertionSort(arr, start) ==
    IF start > Len(arr) THEN arr
    ELSE LET at == InsertionPoint(arr, arr[start], 1, start) IN
         BinaryInsertionSort(
             SubSeq(arr, 1, at - 1) \o <<arr[start]>> \o SubSeq(arr, at, start - 1)
                 \o SubSeq(arr, start + 1, Len(arr)),
             start + 1)

\* videos.sort(comparator)
Sort(arr) ==
    IF Len(arr) < 2 THEN arr
    ELSE LET descending == SortCompare(arr[2], arr[1]) < 0
             run == RunEnd(arr, descending, 3)
             made == IF descending
                     THEN Reverse(SubSeq(arr, 1, run)) \o SubSeq(arr, run + 1, Len(arr))
                     ELSE arr IN
         BinaryInsertionSort(made, run + 1)

(***************************************************************************)
(* The three backends of the CSV deployment, on the array loadVideos made  *)
(***************************************************************************)
\* tools/call arguments: which of query, sport and limit the object has
NoArguments ==
    [hasQuery |-> FALSE, query |-> << >>, hasSport |-> FALSE, sport |-> << >>,
     hasLimit |-> FALSE, limit |-> 0]

\* { ..., limit = 10 }
DefaultLimit == 10

LimitOf(args) == IF args.hasLimit THEN args.limit ELSE DefaultLimit

\* Array.prototype.slice(0, limit), limit >= 0
Slice(arr, limit) == SubSeq(arr, 1, IF limit < Len(arr) THEN limit ELSE Len(arr))

\* a bug that compares the title with the query as typed
SearchMatchesMutant(v, query) ==
    \/ includes(toLowerCase(v.title), query)
    \/ \E i \in 1..Len(v.tags) : includes(v.tags[i], query)

\* v.title.toLowerCase().includes(q) || v.tags.some(tag => tag.includes(q))
SearchMatches(v, query) ==
    LET q == toLowerCase(query) IN
    \/ includes(toLowerCase(v.title), q)
    \/ \E i \in 1..Len(v.tags) : includes(v.tags[i], q)

\* v.tags.includes(s) || v.title.toLowerCase().includes(s)
SportMatches(v, sport) ==
    LET sp == toLowerCase(sport) IN
    \/ \E i \in 1..Len(v.tags) : v.tags[i] = sp
    \/ includes(toLowerCase(v.title), sp)

\* What a backend does with the array it was given: what it returns or raises,
\* and what the array holds afterwards.
Ran(r, arr) == [r |-> r, arr |-> arr]

\* searchVideos after the load: the filter makes a new array
SearchIn(videos, args) ==
    IF ~args.hasQuery THEN Ran(Raised(<<"TypeError", "toLowerCase">>), videos)
    ELSE Ran(Returned(Slice(SelectSeq(videos, LAMBDA v : SearchMatches(v, args.query)),
                            LimitOf(args)),
                      FALSE),
             videos)

\* videosBySport after the load
SportIn(videos, args) ==
    IF ~args.hasSport THEN Ran(Raised(<<"TypeError", "toLowerCase">>), videos)
    ELSE Ran(Returned(Slice(SelectSeq(videos, LAMBDA v : SportMatches(v, args.sport)),
                            LimitOf(args)),
                      FALSE),
             videos)

\* recentVideos after the load: sort works on the array itself
RecentIn(videos, args) ==
    Ran(Returned(Slice(Sort(videos), LimitOf(args)), FALSE), Sort(videos))

\* parse(csvText, { columns: true, skip_empty_lines: true }): the rows of the text,
\* or the error csv-parse throws at a row it cannot read.  The text is the sheet,
\* the sheet with one more row that is torn, or an error page.
parse(fr) ==
    IF fr.body = "badcsv" THEN Raised(<<"CsvError", "invalid record">>)
    ELSE Returned(IF fr.body = "csv" THEN [i \in 1..Len(sheet) |-> Row(sheet[i])]
                  ELSE <<Row("junk")>>,
                  FALSE)

\* a bug that leaves out the rows whose url gave no youtube_id
loadVideosMutant(fr) ==
    IF fr.net = "fail" THEN Raised(<<"FetchError", "request failed">>)
    ELSE LET rows == parse(fr) IN
         IF ~rows.ok THEN rows
         ELSE Returned(SelectSeq([i \in 1..Len(rows.value) |-> MapRow(rows.value[i])],
                                 LAMBDA v : v.youtube_id # << >>),
                       FALSE)

\* loadVideos: fetch, response.text(), parse, rows.map
loadVideos(fr) ==
    IF fr.net = "fail" THEN Raised(<<"FetchError", "request failed">>)
    ELSE LET rows == parse(fr) IN
         IF ~rows.ok THEN rows
         ELSE Returned([i \in 1..Len(rows.value) |-> MapRow(rows.value[i])], FALSE)

\* searchVideos({ query, limit = 10 })
searchVideos(args, fr) ==
    LET videos == loadVideos(fr) IN
    IF ~videos.ok THEN videos ELSE SearchIn(videos.value, args).r

\* videosBySport({ sport, limit = 10 })
videosBySport(args, fr) ==
    LET videos == loadVideos(fr) IN
    IF ~videos.ok THEN videos ELSE SportIn(videos.value, args).r

\* recentVideos({ limit = 10 })
recentVideos(args, fr) ==
    LET videos == loadVideos(fr) IN
    IF ~videos.ok THEN videos ELSE RecentIn(videos.value, args).r

(***************************************************************************)
(* The handlers after the await                                            *)
(***************************************************************************)
YoutubeBackend(name, fr) ==
    IF name = "youtube_search" THEN youtubeSearch(fr) ELSE youtubeGetVideo(fr)

\* a bug that answers a lookup that found nothing with result: undefined, which
\* JSON.stringify drops
ResumeRpcMutant(c, fr) ==
    LET r == YoutubeBackend(c.name, fr) IN
    IF ~r.ok THEN Throw
    ELSE IF c.name = "youtube_search"
    THEN Done(<<RpcResult(c.id, "items", r.value)>>)
    ELSE IF r.isNull THEN Done(<<RpcBody(200, c.id, NoResult, NoError)>>)
    ELSE Done(<<RpcResult(c.id, "video", r.value)>>)

\* src/server.js 313-327: no try around the await
ResumeRpc(c, fr) ==
    LET r == YoutubeBackend(c.name, fr) IN
    IF ~r.ok THEN Throw
    ELSE IF c.name = "youtube_search"
    THEN Done(<<RpcResult(c.id, "items", r.value)>>)
    ELSE Done(<<RpcResult(c.id, "video", r.value)>>)

\* src/unnamed/part_000 101-107: result is the backend's value itself
ResumeBasic(c, fr) ==
    LET r == YoutubeBackend(c.name, fr) IN
    IF ~r.ok THEN Throw
    ELSE Done(<<RpcResult(c.id, IF r.isNull THEN "null" ELSE "raw", r.value)>>)

CsvBackend(name, args, fr) ==
    CASE name = "search_ou_videos" -> searchVideos(args, fr)
      [] name = "get_videos_by_sport" -> videosBySport(args, fr)
      [] OTHER -> recentVideos(args, fr)

\* src/unnamed/part_002 146-153 and the catch of 162-169
CsvRespond(id, r) ==
    IF ~r.ok THEN CsvCatch(id, r.message)
    ELSE Done(<<RpcResult(id, "content", r.value)>>)

\* src/unnamed/part_002 131-153
ResumeCsv(c, fr) == CsvRespond(c.id, CsvBackend(c.name, c.args, fr))

\* POST /youtube/search and POST /youtube/get after the await:
\* try { fetch, json, res.json(data.items || []) or res.json(data.items?.[0] || {}) }
\* catch (err) { res.status(500).json({ error, details: err.message }) }
\* An array is written "array" followed by its items, an object "object" followed
\* by what it holds.
ResumeRest(c, fr) ==
    LET data == FetchJson(fr) IN
    IF ~data.ok
    THEN Done(<<PlainBody(500, "json",
                  <<IF c.name = "youtube_search" THEN "YouTube search failed"
                    ELSE "YouTube video lookup failed">> \o data.message)>>)
    ELSE IF c.name = "youtube_search"
    THEN Done(<<PlainBody(200, "json", <<"array">> \o data.value)>>)
    ELSE Done(<<PlainBody(200, "json",
                  <<"object">> \o (IF data.isNull THEN << >> ELSE <<Head(data.value)>>))>>)

\* The arguments objects the envelopes of Envelopes carry to the CSV tools: {} and
\* an object with the field the tool requires.
Arguments(a) ==
    IF a = "full"
    THEN [NoArguments EXCEPT !.hasQuery = TRUE, !.query = <<"g", "o">>,
                             !.hasSport = TRUE, !.sport = <<"g", "o">>]
    ELSE NoArguments

Resume(v, c, fr) ==
    IF c.route = "rest" THEN ResumeRest(c, fr)
    ELSE CASE v = "rpc" -> ResumeRpc(c, fr)
           [] v = "basic" -> ResumeBasic(c, fr)
           [] OTHER -> ResumeCsv([c EXCEPT !.args = Arguments(c.args)], fr)

Fetches(v) == IF v = "csv" THEN CsvFetches ELSE YoutubeFetches


(***************************************************************************)
(* Routes that need no envelope                                            *)
(***************************************************************************)
NotFound == PlainBody(404, "html", <<"Cannot", "route">>)

IsRestRoute(v, verb, path) ==
    /\ v \in {"manifest", "discovery"}
    /\ verb = "POST"
    /\ path \in {"/youtube/search", "/youtube/get"}

IsMcpRoute(v, verb, path) ==
    HasMcpHandler(v) /\ verb = "POST" /\ path \in {"/mcp", "/mcp/"}

\* app.post("/mcp/manifest") and app.post("/mcp/manifest.json") of part_001
IsFallbackRoute(v, verb, path) ==
    v = "discovery" /\ verb = "POST" /\ path \in {"/mcp/manifest", "/mcp/manifest.json"}

\* the app.get routes of each deployment, and Express's 404 for the rest
StaticRoute(v, verb, path) ==
    IF verb # "GET" THEN NotFound
    ELSE CASE v \in {"manifest", "discovery"} -> PlainBody(200, "json", <<"manifest">>)
           [] v \in {"rpc", "basic"} ->
                IF path = "/manifest.json" THEN PlainBody(200, "json", <<"tools">>)
                ELSE IF path \in {"/mcp", "/mcp/"} THEN PlainBody(200, "json", <<"note">>)
                ELSE NotFound
           [] OTHER ->
                IF path = "/health" THEN PlainBody(200, "text", <<"OK">>) ELSE NotFound

(***************************************************************************)
(* The keepalive heartbeat of the CSV deployment (src/unnamed/part_002     *)
(* 172-186).  beat counts the fetches of the health path that are in       *)
(* flight and the setTimeout timers that are pending, and remembers how    *)
(* the ping that settled last ended.                                       *)
(***************************************************************************)
\* process.env.PUBLIC_URL: unset, the empty string, or the public address
PublicUrls == {Undefined, "s_", "https://app"}

\* how await fetch(`${PUBLIC_URL}/health`) settles: the promise resolves, on any
\* status, or rejects
Pings == {"ok", "fail"}

NoBeat == [inFlight |-> 0, timers |-> 0, settled |-> "none"]

\* heartbeat() up to its await: if (!PUBLIC_URL) return; fetch(...)
heartbeat(url, b) ==
    IF ~Truthy(url) THEN b ELSE [b EXCEPT !.inFlight = @ + 1]

\* a bug that sets the timer inside the try, after the await
heartbeatResumeMutant(b, ping) ==
    [b EXCEPT !.inFlight = @ - 1, !.settled = ping,
              !.timers = IF ping = "fail" THEN @ ELSE @ + 1]

\* heartbeat() after its await: catch (e) {} swallows a rejection, then
\* setTimeout(heartbeat, 25000)
heartbeatResume(b, ping) ==
    [b EXCEPT !.inFlight = @ - 1, !.settled = ping, !.timers = @ + 1]

(***************************************************************************)
(* State                                                                   *)
(***************************************************************************)
NoGate == [verb |-> "none", path |-> "none", auth |-> << >>, decision |-> "none"]

\* no fetch was awaited
NoFetch == [net |-> "none", status |-> 0, body |-> "none"]

NoLast ==
    [route |-> "none", via |-> "none", env |-> NoEnvelope, call |-> NoCall,
     out |-> << >>, threw |-> FALSE, fetch |-> NoFetch, invoked |-> 0, ahead |-> 0]

\* An exchange that has ended: the route that served it, whether its handler had
\* been suspended (via "async"), the envelope (sync) or the handler's locals (async),
\* the replies sent, whether the handler threw, and the fetch it awaited.
Exchange(route, via, env, call, out, threw, fetch) ==
    [route |-> route, via |-> via, env |-> env, call |-> call,
     out |-> out, threw |-> threw, fetch |-> fetch, invoked |-> 0, ahead |-> 0]

\* How often a handler that reached its await calls the backend before it ends:
\* the one await youtubeSearch(...) / searchVideos(args) of its branch, in no loop.
Invocations(v, c, fr) == 1

\* The exchange of a handler that had been suspended: besides what Exchange
\* records, how often it called its backend and how many handlers that were
\* suspended before it are still suspended when it answers.
Resumed(v, c, h, t, fr, i) ==
    [Exchange(c.route, "async", NoEnvelope, c,
              IF h.kind = "throw" THEN t ELSE h.out, h.kind = "throw", fr)
        EXCEPT !.invoked = Invocations(v, c, fr), !.ahead = i - 1]

\* A rejected promise of an async handler: Express 4 never answers the request,
\* Express 5 passes the error to its default handler, which answers 500.
UncaughtOutcomes == { << >>, <<PlainBody(500, "html", <<"Internal Server Error">>)>> }

Idle == gate = NoGate /\ last = NoLast

\* the sheet the deployment reads while it serves HTTP requests
PublishedSheet == <<"a", "b">>

\* an array slot of the heap: whether a handler holds an array there, and the array
FreeSlot == [used |-> FALSE, arr |-> << >>]
NoArrays == [r \in 1..MaxInFlight |-> FreeSlot]

NoAnswer ==
    [via |-> "none", id |-> "absent", name |-> "absent", args |-> NoArguments,
     fetch |-> NoFetch, out |-> << >>]

Init ==
    /\ \E c \in Configs : variant = c[1] /\ secret = c[2]
    /\ tools = Catalog(variant)
    /\ gate = NoGate
    /\ pending = << >>
    /\ last = NoLast
    /\ sheet = PublishedSheet
    /\ flight = << >>
    /\ heap = NoArrays
    /\ answer = NoAnswer
    /\ publicUrl = Undefined
    /\ beat = heartbeat(publicUrl, NoBeat)

(***************************************************************************)
(* Actions                                                                 *)
(***************************************************************************)
\* A request arrives and goes through the auth middleware.
Arrive ==
    /\ Idle
    /\ \E req \in HttpRequests :
         LET d == AuthMiddleware(variant, secret, req) IN
         /\ gate' = [verb |-> req.verb, path |-> req.path, auth |-> req.auth,
                     decision |-> d]
         /\ last' = IF d = "reject"
                    THEN Exchange("gate", "sync", NoEnvelope, NoCall,
                                  <<Unauthorized>>, FALSE, NoFetch)
                    ELSE NoLast
    /\ UNCHANGED <<variant, secret, tools, pending, sheet, csvVars, hbVars>>

Routed == gate.decision = "next"

\* POST /mcp: the handler runs to its end without awaiting.
McpRespond ==
    /\ Routed /\ IsMcpRoute(variant, gate.verb, gate.path)
    /\ \E e \in Envelopes :
         LET h == McpHandler(variant, e, tools) IN
         /\ h.kind = "done"
         /\ last' = Exchange("mcp", "sync", e, NoCall, h.out, FALSE, NoFetch)
    /\ gate' = NoGate
    /\ UNCHANGED <<variant, secret, tools, pending, sheet, csvVars, hbVars>>

\* POST /mcp: the handler calls a backend and is suspended at await fetch(...).
McpSuspend ==
    /\ Routed /\ IsMcpRoute(variant, gate.verb, gate.path)
    /\ Len(pending) < MaxPending
    /\ \E e \in Envelopes :
         LET h == McpHandler(variant, e, tools) IN
         /\ h.kind = "await"
         /\ pending' = Append(pending, h.call)
    /\ gate' = NoGate
    /\ UNCHANGED <<variant, secret, tools, last, sheet, csvVars, hbVars>>

\* POST /mcp: the handler throws before any await.
McpThrow ==
    /\ Routed /\ IsMcpRoute(variant, gate.verb, gate.path)
    /\ \E e \in Envelopes, t \in UncaughtOutcomes :
         LET h == McpHandler(variant, e, tools) IN
         /\ h.kind = "throw"
         /\ last' = Exchange("mcp", "sync", e, NoCall, t, TRUE, NoFetch)
    /\ gate' = NoGate
    /\ UNCHANGED <<variant, secret, tools, pending, sheet, csvVars, hbVars>>

\* POST /mcp/manifest(.json) of the discovery deployment: echoes req.body.id.
FallbackRespond ==
    /\ Routed /\ IsFallbackRoute(variant, gate.verb, gate.path)
    /\ \E id \in IdValues :
         last' = Exchange("fallback", "sync", [NoEnvelope EXCEPT !.id = id], NoCall,
                          <<RpcResult(id, "manifest", Names(tools))>>, FALSE, NoFetch)
    /\ gate' = NoGate
    /\ UNCHANGED <<variant, secret, tools, pending, sheet, csvVars, hbVars>>

\* POST /youtube/search, POST /youtube/get: builds the url and awaits the fetch.
RestSuspend ==
    /\ Routed /\ IsRestRoute(variant, gate.verb, gate.path)
    /\ Len(pending) < MaxPending
    /\ \E args \in {"empty", "full"} :
         pending' = Append(pending,
             [route |-> "rest", id |-> "absent",
              name |-> IF gate.path = "/youtube/search" THEN "youtube_search"
                       ELSE "youtube_get_video",
              args |-> args])
    /\ gate' = NoGate
    /\ UNCHANGED <<variant, secret, tools, last, sheet, csvVars, hbVars>>

\* Every other route: a GET route, or Express's 404.
StaticRespond ==
    /\ Routed
    /\ ~IsMcpRoute(variant, gate.verb, gate.path)
    /\ ~IsRestRoute(variant, gate.verb, gate.path)
    /\ ~IsFallbackRoute(variant, gate.verb, gate.path)
    /\ last' = Exchange("static", "sync", NoEnvelope, NoCall,
                        <<StaticRoute(variant, gate.verb, gate.path)>>, FALSE, NoFetch)
    /\ gate' = NoGate
    /\ UNCHANGED <<variant, secret, tools, pending, sheet, csvVars, hbVars>>

\* A POST whose body express.json() did not parse (no body, or no JSON content
\* type).  Express 4 leaves req.body = {}, which is the envelope or the arguments
\* with every field absent; Express 5 leaves req.body undefined, so the handler's
\* first line, const { ... } = req.body, throws outside any try and Express 5's
\* default error handler answers.  The exchange is via "nobody": it had no envelope.
BodyAbsent ==
    /\ Routed
    /\ \/ IsMcpRoute(variant, gate.verb, gate.path)
       \/ IsRestRoute(variant, gate.verb, gate.path)
       \/ IsFallbackRoute(variant, gate.verb, gate.path)
    /\ last' = Exchange(CASE IsMcpRoute(variant, gate.verb, gate.path) -> "mcp"
                          [] IsRestRoute(variant, gate.verb, gate.path) -> "rest"
                          [] OTHER -> "fallback",
                        "nobody", NoEnvelope, NoCall,
                        <<PlainBody(500, "html", <<"Internal Server Error">>)>>,
                        TRUE, NoFetch)
    /\ gate' = NoGate
    /\ UNCHANGED <<variant, secret, tools, pending, sheet, csvVars, hbVars>>

RemoveAt(q, i) == SubSeq(q, 1, i - 1) \o SubSeq(q, i + 1, Len(q))

\* The awaited fetch of a suspended handler settles and the handler runs to its end.
BackendReturn ==
    /\ Idle
    /\ \E i \in 1..Len(pending), fr \in Fetches(variant), t \in UncaughtOutcomes :
         LET c == pending[i]
             h == Resume(variant, c, fr) IN
         /\ h.kind = "throw" \/ t = << >>
         /\ last' = Resumed(variant, c, h, t, fr, i)
         /\ pending' = RemoveAt(pending, i)
    /\ UNCHANGED <<variant, secret, tools, gate, sheet, csvVars, hbVars>>

\* The exchange that has just ended is done with.
Flush ==
    /\ last # NoLast
    /\ gate' = NoGate
    /\ last' = NoLast
    /\ UNCHANGED <<variant, secret, tools, pending, sheet, csvVars, hbVars>>

Next ==
    \/ Arrive
    \/ McpRespond
    \/ McpSuspend
    \/ McpThrow
    \/ FallbackRespond
    \/ RestSuspend
    \/ StaticRespond
    \/ BodyAbsent
    \/ BackendReturn
    \/ Flush

Spec == Init /\ [][Next]_vars


(***************************************************************************)
(* The CSV deployment await by await, on the rows of a sheet.  A tools/call*)
(* handler awaits searchVideos (or its like), which awaits loadVideos,     *)
(* which awaits fetch and then response.text(); each await is a point      *)
(* where the other handlers in flight may run.                             *)
(***************************************************************************)
Queries == { <<"G", "o">>, <<"g", "o">>, <<"g", "O">>, <<"u">>, <<"U">>, << >> }
Sports == { <<"g", "o">>, <<"G", "O">>, <<"u">> }
Limits == 0..MaxLimit \cup {LongRows - 1}

WithLimit(args, n) == [args EXCEPT !.hasLimit = TRUE, !.limit = n]
WithQuery(q) == [NoArguments EXCEPT !.hasQuery = TRUE, !.query = q]
WithSport(sp) == [NoArguments EXCEPT !.hasSport = TRUE, !.sport = sp]

Limited(A) == A \cup { WithLimit(a, n) : a \in A, n \in Limits }

\* the tools/call Requests sent to the CSV deployment: the tool and its arguments
CsvCalls ==
    { [id |-> id, name |-> "search_ou_videos", args |-> a] :
        id \in {"n1", "n0"}, a \in Limited({ WithQuery(q) : q \in Queries })
                                      \cup {NoArguments} }
    \cup { [id |-> id, name |-> "get_videos_by_sport", args |-> a] :
        id \in {"n1", "n0"}, a \in Limited({ WithSport(sp) : sp \in Sports }) }
    \cup { [id |-> id, name |-> "get_recent_videos", args |-> a] :
        id \in {"n1", "n0"}, a \in Limited({NoArguments}) }

\* the calls that are sent while others are in flight
SharedCalls ==
    { [id |-> "n1", name |-> "get_recent_videos", args |-> NoArguments],
      [id |-> "n1", name |-> "search_ou_videos", args |-> WithQuery(<<"g", "o">>)],
      [id |-> "n1", name |-> "get_videos_by_sport", args |-> WithSport(<<"u">>)] }

LongSheet == [i \in 1..LongRows |-> IF i % 2 = 1 THEN "a" ELSE "b"]

Sheets == UNION { [1..n -> RowKeys] : n \in 0..MaxRows } \cup {LongSheet}

SharedSheets == { <<"b", "a">>, <<"a", "junk", "c">>, <<"c", "a", "b">> }

\* the handler's locals: pc is the await it is suspended at
Handler(id, name, args) ==
    [id |-> id, name |-> name, args |-> args, pc |-> "fetch", fetch |-> NoFetch,
     ref |-> 0, r |-> Returned(<< >>, FALSE)]

Answer(via, c, fr, out) ==
    [via |-> via, id |-> c.id, name |-> c.name, args |-> c.args, fetch |-> fr,
     out |-> out]

\* a bug that hands every caller the one array a module-level cache holds
NewArrayMutant(h, videos) ==
    IF \E r \in DOMAIN h : h[r].used
    THEN [ref |-> CHOOSE r \in DOMAIN h : h[r].used, heap |-> h]
    ELSE [ref |-> 1, heap |-> [h EXCEPT ![1] = [used |-> TRUE, arr |-> videos]]]

\* rows.map(...): a new array, referenced by the caller alone
NewArray(h, videos) ==
    LET ref == CHOOSE r \in DOMAIN h : ~h[r].used /\ \A q \in 1..(r - 1) : h[q].used IN
    [ref |-> ref, heap |-> [h EXCEPT ![ref] = [used |-> TRUE, arr |-> videos]]]

\* the tool function after await loadVideos(), on the array it holds
CsvRun(name, videos, args) ==
    CASE name = "search_ou_videos" -> SearchIn(videos, args)
      [] name = "get_videos_by_sport" -> SportIn(videos, args)
      [] OTHER -> RecentIn(videos, args)

\* the module has been loaded: its last statement is the first heartbeat()
InitCsv(sheets, urls) ==
    /\ variant = "csv" /\ secret = Undefined
    /\ tools = Catalog("csv")
    /\ gate = NoGate /\ pending = << >> /\ last = NoLast
    /\ sheet \in sheets
    /\ flight = << >>
    /\ heap = NoArrays
    /\ answer = NoAnswer
    /\ publicUrl \in urls
    /\ beat = heartbeat(publicUrl, NoBeat)

\* POST /mcp with a tools/call: the handler up to await fetch(CSV_URL), or to its
\* end when it answers without calling a tool
CsvCall(calls, cap) ==
    /\ answer = NoAnswer
    /\ Len(flight) < cap
    /\ \E c \in calls :
         LET e == [jsonrpc |-> "2.0", id |-> c.id, method |-> <<"tools", "call">>,
                   hasParams |-> TRUE, name |-> c.name, args |-> "full"]
             h == McpHandler(variant, e, tools) IN
         IF h.kind = "await"
         THEN /\ flight' = Append(flight, Handler(h.call.id, h.call.name, c.args))
              /\ answer' = answer
         ELSE /\ answer' = Answer("sync", c, NoFetch, h.out)
              /\ flight' = flight
    /\ UNCHANGED <<hbVars, variant, secret, tools, gate, pending, last, sheet, heap>>

\* await fetch(CSV_URL) settles: on to await response.text(), or the rejection
\* goes up to the handler's catch
FetchSettles ==
    /\ answer = NoAnswer
    /\ \E i \in 1..Len(flight), fr \in Fetches(variant) :
         /\ flight[i].pc = "fetch"
         /\ flight' = [flight EXCEPT ![i] =
              IF fr.net = "fail"
              THEN [@ EXCEPT !.pc = "returned", !.fetch = fr, !.r = loadVideos(fr)]
              ELSE [@ EXCEPT !.pc = "text", !.fetch = fr]]
    /\ UNCHANGED <<hbVars, variant, secret, tools, gate, pending, last, sheet, heap, answer>>

\* await response.text() settles: parse, rows.map, return videos
TextSettles ==
    /\ answer = NoAnswer
    /\ \E i \in 1..Len(flight) :
         /\ flight[i].pc = "text"
         /\ LET videos == loadVideos(flight[i].fetch)
                new == NewArray(heap, videos.value) IN
            IF videos.ok
            THEN /\ flight' = [flight EXCEPT ![i] = [@ EXCEPT !.pc = "loaded",
                                                              !.ref = new.ref]]
                 /\ heap' = new.heap
            ELSE /\ flight' = [flight EXCEPT ![i] = [@ EXCEPT !.pc = "returned",
                                                              !.r = videos]]
                 /\ heap' = heap
    /\ UNCHANGED <<hbVars, variant, secret, tools, gate, pending, last, sheet, answer>>

\* await loadVideos() settles: the tool function filters, or sorts, and returns
ToolContinues ==
    /\ answer = NoAnswer
    /\ \E i \in 1..Len(flight) :
         /\ flight[i].pc = "loaded"
         /\ LET ran == CsvRun(flight[i].name, heap[flight[i].ref].arr, flight[i].args) IN
            /\ flight' = [flight EXCEPT ![i] = [@ EXCEPT !.pc = "returned", !.r = ran.r]]
            /\ heap' = [heap EXCEPT ![flight[i].ref].arr = ran.arr]
    /\ UNCHANGED <<hbVars, variant, secret, tools, gate, pending, last, sheet, answer>>

\* await searchVideos(args) settles: res.json of the result, or of the catch
HandlerContinues ==
    /\ answer = NoAnswer
    /\ \E i \in 1..Len(flight) :
         LET c == flight[i] IN
         /\ c.pc = "returned"
         /\ answer' = Answer("async", c, c.fetch, CsvRespond(c.id, c.r).out)
         /\ flight' = RemoveAt(flight, i)
         /\ heap' = IF c.ref = 0 THEN heap ELSE [heap EXCEPT ![c.ref] = FreeSlot]
    /\ UNCHANGED <<hbVars, variant, secret, tools, gate, pending, last, sheet>>

\* The answer is done with.
AnswerFlush ==
    /\ answer # NoAnswer
    /\ answer' = NoAnswer
    /\ UNCHANGED <<hbVars, variant, secret, tools, gate, pending, last, sheet, flight, heap>>

\* one call at a time, on every sheet and with every argument
BackendCall == CsvCall(CsvCalls, 1)

InitBackend == InitCsv(Sheets, {Undefined})

NextBackend ==
    \/ BackendCall
    \/ FetchSettles
    \/ TextSettles
    \/ ToolContinues
    \/ HandlerContinues
    \/ AnswerFlush

SpecBackend == InitBackend /\ [][NextBackend]_vars

\* several calls in flight
SharedCall == CsvCall(SharedCalls, MaxInFlight)

InitShared == InitCsv(SharedSheets, {Undefined})

NextShared ==
    \/ SharedCall
    \/ FetchSettles
    \/ TextSettles
    \/ ToolContinues
    \/ HandlerContinues
    \/ AnswerFlush

SpecShared == InitShared /\ [][NextShared]_vars

(***************************************************************************)
(* The heartbeat beside the handlers.  Its two continuations are run by    *)
(* the event loop like any other: each is one action.                      *)
(***************************************************************************)
\* await fetch(`${PUBLIC_URL}/health`) settles: the rest of heartbeat() runs
PingSettles ==
    /\ beat.inFlight > 0
    /\ \E ping \in Pings : beat' = heartbeatResume(beat, ping)
    /\ UNCHANGED <<variant, secret, tools, gate, pending, last, sheet, csvVars, publicUrl>>

\* a timer set by setTimeout(heartbeat, 25000) fires: heartbeat() runs to its await
TimerFires ==
    /\ beat.timers > 0
    /\ beat' = heartbeat(publicUrl, [beat EXCEPT !.timers = @ - 1])
    /\ UNCHANGED <<variant, secret, tools, gate, pending, last, sheet, csvVars, publicUrl>>

\* the tools/call handlers that run beside the heartbeat, one at a time
HeartbeatCall == CsvCall(SharedCalls, 1)

InitHeartbeat == InitCsv(SharedSheets, PublicUrls)

NextHeartbeat ==
    \/ PingSettles
    \/ TimerFires
    \/ HeartbeatCall
    \/ FetchSettles
    \/ TextSettles
    \/ ToolContinues
    \/ HandlerContinues
    \/ AnswerFlush

\* The event loop runs a timer's callback once its delay has passed, and the
\* continuation of an await once its promise has settled; a fetch settles when the
\* server answers or the connection fails.
SpecHeartbeat ==
    /\ InitHeartbeat
    /\ [][NextHeartbeat]_vars
    /\ WF_vars(PingSettles)
    /\ WF_vars(TimerFires)


(***************************************************************************)
(* Vocabulary of the properties                                            *)
(***************************************************************************)
\* the exchange that has just ended was served by a POST /mcp handler
McpExchange == last.route = "mcp"
McpSync == McpExchange /\ last.via = "sync"
McpAsync == McpExchange /\ last.via = "async"

\* the id the request of the exchange carried
RequestId == IF last.via = "async" THEN last.call.id ELSE last.env.id

\* the replies of the exchange that are JSON-RPC responses
IsRpcResponse(r) == r.body = "jsonrpc"
RpcResponses == SelectSeq(last.out, IsRpcResponse)

\* the method name starts with "notifications/"
HasNotificationPrefix(e) == Len(e.method) >= 2 /\ e.method[1] = "notifications"

\* a Request of the data model: jsonrpc "2.0", an id, no notification prefix
IsRequest(e) ==
    /\ e.jsonrpc = "2.0"
    /\ e.id # "absent"
    /\ ~HasNotificationPrefix(e)

\* the exchange served a Request: a suspended handler always serves one
RequestExchange == McpAsync \/ (McpSync /\ IsRequest(last.env))

\* the exchange made no backend call
NoBackendCall == last.fetch = NoFetch /\ last.via = "sync"

Registered(v) == { Catalog(v)[i].name : i \in 1..Len(Catalog(v)) }

(***************************************************************************)
(* C1: every Request POSTed to /mcp receives exactly one JSON-RPC response *)
(* (a result or an error), never zero and never two, also a tools/call     *)
(* without params and a tools/call whose backend fails.  Stated of the     *)
(* handlers of src/server.js 258-345 and src/unnamed/part_002 112-170 at   *)
(* the end of the exchange.                                                *)
(***************************************************************************)
C1_ExactlyOneResponse ==
    (variant \in {"rpc", "csv"} /\ RequestExchange) =>
        /\ Len(last.out) = 1
        /\ Len(RpcResponses) = 1
        /\ HasResult(last.out[1]) # HasError(last.out[1])

(***************************************************************************)
(* C2: the id of every response emitted on POST /mcp equals the id of the  *)
(* request it answers, for every id value (any string, "" included, any    *)
(* number, 0 included, and null); null stands in only for a request that   *)
(* carried no id.                                                          *)
(***************************************************************************)
C2_IdEchoed ==
    (variant \in {"rpc", "basic", "csv"} /\ McpExchange) =>
        \A i \in 1..Len(RpcResponses) :
            RpcResponses[i].id = (IF RequestId = "absent" THEN "null" ELSE RequestId)

(***************************************************************************)
(* C3: every Request with a method other than initialize, tools/list and   *)
(* tools/call is answered {jsonrpc "2.0", id, error {code -32601}} with    *)
(* the request's id, and no backend is invoked.                            *)
(***************************************************************************)
C3_UnknownMethod ==
    ( /\ variant \in {"rpc", "csv", "discovery"}
      /\ McpSync
      /\ IsRequest(last.env)
      /\ last.env.method \notin {<<"initialize">>, <<"tools", "list">>, <<"tools", "call">>} )
    => /\ Len(last.out) = 1
       /\ IsRpcResponse(last.out[1])
       /\ last.out[1].error.code = -32601
       /\ ~HasResult(last.out[1])
       /\ last.out[1].id = last.env.id
       /\ NoBackendCall


C5_MalformedEnvelope ==
    (variant \in {"rpc", "csv"} /\ McpSync /\ ~HasNotificationPrefix(last.env)) =>
        /\ (last.env.jsonrpc # "2.0" \/ last.env.id = "absent")
             => last.out = <<RpcError(200, IF last.env.id = "absent" THEN "null"
                                           ELSE last.env.id,
                                      -32600, <<"Invalid Request">>)>>
        /\ (last.env.jsonrpc = "2.0" /\ last.env.id = "null"
              /\ last.env.method = <<"tools", "list">>)
             => last.out = <<RpcResult("null", "tools", Names(Catalog(variant)))>>

(***************************************************************************)
(* C6: a tools/call Request whose params.name is no registered tool is     *)
(* answered with the error -32601 "Unknown tool" and the request's id, and *)
(* no backend is invoked.                                                  *)
(***************************************************************************)
C6_UnknownTool ==
    ( /\ variant \in {"rpc", "csv"}
      /\ McpSync
      /\ IsRequest(last.env)
      /\ last.env.method = <<"tools", "call">>
      /\ last.env.hasParams
      /\ last.env.name \notin Registered(variant) )
    => /\ last.out = <<RpcError(200, last.env.id, -32601, <<"Unknown tool">>)>>
       /\ NoBackendCall

(***************************************************************************)
(* C7: tools/list returns the full catalog, unfiltered and in registration *)
(* order, and the same catalog on every call, whatever requests were       *)
(* served before it and whatever handlers are still suspended.             *)
(***************************************************************************)
C7_ToolsListStable ==
    /\ tools = Catalog(variant)
    /\ ( /\ variant = "rpc"
         /\ McpSync
         /\ IsRequest(last.env)
         /\ last.env.method = <<"tools", "list">> )
       => last.out = <<RpcResult(last.env.id, "tools",
                                 <<"youtube_search", "youtube_get_video">>)>>

\* tools/list is answered while an earlier tools/call is still awaiting its backend
C7_Witness ==
    /\ variant = "rpc" /\ McpSync /\ IsRequest(last.env)
    /\ last.env.method = <<"tools", "list">>
    /\ Len(pending) > 0
    /\ Len(last.out) = 1 /\ last.out[1].result.shape = "tools"


\* the middleware holds a request to a path outside the allowlist whose header is
\* missing or is not "Bearer " followed by the secret
BadCredentialsAtGate ==
    /\ gate.decision # "none"
    /\ HasAuthMiddleware(variant)
    /\ gate.path \notin OpenPaths(variant)
    /\ (gate.auth = << >> \/ gate.auth # <<"Bearer ", TemplateString(secret)>>)

C9_AllowlistedNeverRejected ==
    /\ ( /\ gate.decision # "none"
         /\ \/ gate.path \in {"/mcp", "/mcp/", "/manifest.json", "/manifest"}
            \/ /\ variant \in {"manifest", "discovery"}
               /\ gate.path \in {"/mcp/manifest", "/mcp/manifest.json"} )
       => (gate.decision = "next" /\ last.route # "gate")
    /\ last.route \notin {"none", "gate"}
       => \A i \in 1..Len(last.out) : last.out[i].status # 401

\* POST /mcp with a wrong bearer token goes on to the route
C9_Witness ==
    /\ variant = "discovery" /\ secret = "s3cret"
    /\ gate.verb = "POST" /\ gate.path = "/mcp"
    /\ gate.auth = <<"Bearer ", "undefined">>
    /\ gate.decision = "next"

\* the fetch failed, the upstream status is no success, or the body does not parse
BackendFailed(fr) ==
    \/ fr.net = "fail"
    \/ fr.status \notin 200..299
    \/ fr.body \in {"garbage", "badcsv"}

(***************************************************************************)
(* C10: when the backend of a tools/call fails (the fetch fails, the       *)
(* upstream status is no success, or the body cannot be parsed), the       *)
(* request is answered with the error -32000 carrying the backend's        *)
(* message, with the request's id.                                         *)
(***************************************************************************)
C10_BackendFailure ==
    (variant \in {"rpc", "csv"} /\ McpAsync /\ BackendFailed(last.fetch)) =>
        /\ Len(last.out) = 1
        /\ IsRpcResponse(last.out[1])
        /\ last.out[1].error.code = -32000
        /\ last.out[1].error.message # << >>
        /\ last.out[1].id = last.call.id

\* the tools whose schema declares a required field: query, videoId or sport
RequiresArgument(name) ==
    name \in {"youtube_search", "youtube_get_video", "search_ou_videos",
              "get_videos_by_sport"}

(***************************************************************************)
(* C11: a tools/call Request to a registered tool whose arguments lack the *)
(* field its schema requires (query, videoId, sport) is answered with the  *)
(* error -32000 and a message, and no handler goes to the backend with the *)
(* missing value.                                                          *)
(***************************************************************************)
C11_MissingArgumentRejected ==
    /\ ( /\ variant \in {"rpc", "csv"}
         /\ McpSync
         /\ IsRequest(last.env)
         /\ last.env.method = <<"tools", "call">>
         /\ last.env.hasParams
         /\ last.env.name \in Registered(variant)
         /\ RequiresArgument(last.env.name)
         /\ last.env.args # "full" )
       => /\ Len(last.out) = 1
          /\ IsRpcResponse(last.out[1])
          /\ last.out[1].error.code = -32000
          /\ last.out[1].error.message # << >>
          /\ last.out[1].id = last.env.id
    /\ \A i \in 1..Len(pending) :
         (variant \in {"rpc", "csv"} /\ pending[i].route = "mcp"
            /\ RequiresArgument(pending[i].name))
         => pending[i].args = "full"

(***************************************************************************)
(* C12: the handshake is stateless and idempotent.  Every initialize       *)
(* Request is answered with the same fixed result (protocol version,       *)
(* server name and version, the tools capability) whatever was served      *)
(* before and whatever is still suspended; tools/list is answered with the *)
(* catalog and a tools/call with what its own arguments and its own fetch  *)
(* give, whether or not an initialize came before.  Stated of the          *)
(* dispatchers of src/server.js 258-345 and src/unnamed/part_000 76-123.   *)
(***************************************************************************)
C12_HandshakeStateless ==
    variant \in {"rpc", "basic"} =>
        /\ (McpSync /\ IsRequest(last.env) /\ last.env.method = <<"initialize">>)
             => last.out = <<RpcResult(last.env.id, "handshake",
                                <<"2025-06-18", "youtube-mcp-server", "1.0.0", "tools">>)>>
        /\ (McpSync /\ IsRequest(last.env) /\ last.env.method = <<"tools", "list">>)
             => last.out = <<RpcResult(last.env.id, "tools",
                                <<"youtube_search", "youtube_get_video">>)>>
        /\ McpAsync
             => LET h == Resume(variant, last.call, last.fetch) IN
                IF h.kind = "throw" THEN last.threw
                ELSE ~last.threw /\ last.out = h.out

\* the reply carries a JSON body
IsJsonBody(r) == r.body \in {"json", "jsonrpc"}

(***************************************************************************)
(* C13: every JSON body returned on POST /mcp has jsonrpc "2.0" and        *)
(* exactly one of the fields result and error, never both and never        *)
(* neither, for every envelope and every backend outcome, a video lookup   *)
(* that finds nothing included.  Stated of the dispatchers of              *)
(* src/server.js 258-345 and src/unnamed/part_002 112-170.                 *)
(***************************************************************************)
C13_ResultXorError ==
    (variant \in {"rpc", "csv"} /\ McpExchange) =>
        \A i \in 1..Len(last.out) :
            IsJsonBody(last.out[i]) =>
                /\ last.out[i].jsonrpc = "2.0"
                /\ HasResult(last.out[i]) # HasError(last.out[i])

\* a video lookup that found nothing is answered with a result and no error
C13_Witness ==
    /\ variant = "rpc" /\ McpAsync
    /\ last.call.name = "youtube_get_video"
    /\ last.fetch.body = "noitems"
    /\ Len(last.out) = 1 /\ IsJsonBody(last.out[1])
    /\ HasResult(last.out[1]) /\ ~HasError(last.out[1])


(***************************************************************************)
(* Vocabulary of the properties of the CSV backends                        *)
(***************************************************************************)
\* a handler of the CSV deployment has answered after calling its backend
Answered == answer.via = "async"

\* the call was answered with a result: the records of its content
ResultAnswer ==
    /\ Len(answer.out) = 1
    /\ IsRpcResponse(answer.out[1])
    /\ HasResult(answer.out[1])
    /\ answer.out[1].result.shape = "content"
AnsweredItems == answer.out[1].result.items

\* the array loadVideos made for the call that was answered
Loaded == loadVideos(answer.fetch)
Dataset == Loaded.value

\* the limit in force: the caller's, or the default of 10
LimitInForce == IF answer.args.hasLimit THEN answer.args.limit ELSE 10

\* p is q in another casing
Recasing(p, q) == Len(p) = Len(q) /\ toLowerCase(p) = toLowerCase(q)

TitleContains(v, q) == includes(toLowerCase(v.title), toLowerCase(q))

\* a keyword search that went to the backend with a query and was answered
SearchAnswered ==
    /\ Answered
    /\ answer.name = "search_ou_videos"
    /\ answer.args.hasQuery
    /\ Loaded.ok

(***************************************************************************)
(* C14: keyword search is case-insensitive.  For every dataset and every   *)
(* query, searchVideos returns the same list for the query and for every   *)
(* re-casing of it, and the list holds every record whose title contains   *)
(* the query ignoring case, unless the limit has cut it.                   *)
(***************************************************************************)
C14_CaseInsensitiveSearch ==
    SearchAnswered =>
        /\ ResultAnswer
        /\ \A q \in Queries :
             Recasing(q, answer.args.query) =>
                 searchVideos([answer.args EXCEPT !.query = q], answer.fetch)
                     = Returned(AnsweredItems, FALSE)
        /\ \/ Len(AnsweredItems) = LimitInForce
           \/ \A i \in 1..Len(Dataset) :
                TitleContains(Dataset[i], answer.args.query)
                    => \E j \in 1..Len(AnsweredItems) : AnsweredItems[j] = Dataset[i]

\* the query "Go" finds the record titled "Go", and "gO" is another casing of it
C14_Witness ==
    /\ SearchAnswered /\ ResultAnswer
    /\ answer.args.query = <<"G", "o">>
    /\ <<"g", "O">> \in Queries
    /\ \E j \in 1..Len(AnsweredItems) : AnsweredItems[j].title = <<"G", "o">>
    /\ \E i \in 1..Len(Dataset) : Dataset[i].title = << >>

\* the recency backend was called and its load succeeded
RecentAnswered ==
    /\ Answered
    /\ answer.name = "get_recent_videos"
    /\ Loaded.ok

Parsed(v) == DateOf(v.published_at)

(***************************************************************************)
(* C15: the recency backend returns the records sorted by parsed publish   *)
(* timestamp, descending, with every record whose timestamp does not parse *)
(* after every record whose timestamp parses, for every order of the       *)
(* source rows, and it never fails because of such a timestamp.            *)
(***************************************************************************)
C15_RecentSorted ==
    RecentAnswered =>
        /\ ResultAnswer
        /\ \A i, j \in 1..Len(AnsweredItems) :
             i < j =>
                 /\ ~(Parsed(AnsweredItems[i]).nan /\ ~Parsed(AnsweredItems[j]).nan)
                 /\ (~Parsed(AnsweredItems[i]).nan /\ ~Parsed(AnsweredItems[j]).nan)
                      => Parsed(AnsweredItems[i]).t >= Parsed(AnsweredItems[j]).t

\* the record contains q in its title or in one of its tags, ignoring case
ContainsQuery(v, q) ==
    \/ TitleContains(v, q)
    \/ \E i \in 1..Len(v.tags) : includes(toLowerCase(v.tags[i]), toLowerCase(q))

\* the records of the dataset that contain the query, in source order
MatchingRecords ==
    SelectSeq(IF Answered THEN Dataset ELSE [i \in 1..Len(sheet) |-> MapRow(Row(sheet[i]))],
              LAMBDA v : ContainsQuery(v, answer.args.query))

\* a keyword-search tools/call with a query has been answered; its load, if it
\* came to one, succeeded
KeywordCallAnswered ==
    /\ answer.via # "none"
    /\ answer.name = "search_ou_videos"
    /\ answer.args.hasQuery
    /\ Answered => Loaded.ok

(***************************************************************************)
(* C16: a keyword-search tools/call with query q and limit n is answered   *)
(* with a JSON-RPC result that carries the request's id and holds exactly  *)
(* the first min(n, number of matches) records that contain q in title or  *)
(* tags, in source order and with no other record; n is 10 when the call   *)
(* has no limit.                                                           *)
(***************************************************************************)
C16_KeywordSearchResult ==
    KeywordCallAnswered =>
        /\ ResultAnswer
        /\ answer.out[1].id = answer.id
        /\ AnsweredItems =
             SubSeq(MatchingRecords, 1,
                    IF LimitInForce < Len(MatchingRecords) THEN LimitInForce
                    ELSE Len(MatchingRecords))

\* the status code as an error message would spell it
StatusText(n) ==
    CASE n = 403 -> "403" [] n = 404 -> "404" [] n = 502 -> "502" [] OTHER -> "200"

(***************************************************************************)
(* C17: youtubeSearch and youtubeGetVideo treat a non-success HTTP status  *)
(* of the upstream API as a backend error that carries the status code: a  *)
(* tools/call whose upstream reply has such a status is answered with an   *)
(* error, never with a result.  Stated of src/server.js 350-369 and        *)
(* src/unnamed/part_000 128-147 as their dispatchers call them.            *)
(***************************************************************************)
C17_UpstreamStatusIsError ==
    ( /\ variant \in {"rpc", "basic"}
      /\ McpAsync
      /\ last.fetch.net = "ok"
      /\ last.fetch.status \notin 200..299 )
    => /\ \A i \in 1..Len(last.out) : ~HasResult(last.out[i])
       /\ \A i \in 1..Len(RpcResponses) :
            \E k \in 1..Len(RpcResponses[i].error.message) :
               RpcResponses[i].error.message[k] = StatusText(last.fetch.status)

AloneAnswer ==
    ResumeCsv([route |-> "mcp", id |-> answer.id, name |-> answer.name,
               args |-> answer.args], answer.fetch).out

(***************************************************************************)
(* C19: no backend mutates shared state and each invocation is computed    *)
(* independently.  When several tools/call handlers are in flight and run  *)
(* in turns at their awaits, each is answered with what it would have got  *)
(* had it run alone against the same sheet, get_recent_videos included,    *)
(* which sorts its array in place; no two handlers hold the same array,    *)
(* and the catalog stays as it was registered.                             *)
(***************************************************************************)
C19_ComputedIndependently ==
    /\ Answered => answer.out = AloneAnswer
    /\ \A i, j \in 1..Len(flight) :
         (i # j /\ flight[i].ref # 0) => flight[i].ref # flight[j].ref
    /\ \A i \in 1..Len(flight) : flight[i].ref # 0 => heap[flight[i].ref].used
    /\ tools = Catalog(variant)

\* a keyword search is answered in source order while a get_recent_videos handler
\* in flight holds its own array, already sorted into another order
C19_Witness ==
    /\ sheet = <<"b", "a">>
    /\ Answered /\ answer.name = "search_ou_videos" /\ ResultAnswer
    /\ [n \in 1..Len(AnsweredItems) |-> AnsweredItems[n].title] = << <<"U">>, <<"G", "o">> >>
    /\ \E i \in 1..Len(flight) :
         /\ flight[i].name = "get_recent_videos"
         /\ flight[i].pc = "returned"
         /\ flight[i].ref # 0
         /\ LET arr == heap[flight[i].ref].arr IN
            [n \in 1..Len(arr) |-> arr[n].title] = << <<"G", "o">>, <<"U">> >>

\* the one invocation of the backend failed: the fetch was rejected or the body
\* did not parse
InvocationFailed ==
    last.fetch.net = "fail" \/ last.fetch.body \in {"garbage", "badcsv"}

(***************************************************************************)
(* C20: the dispatcher does not retry.  For every tools/call the backend   *)
(* it is bound to is invoked at most once, and when that one invocation    *)
(* fails the failure is reported to the caller, with no second invocation. *)
(* Stated of src/server.js 309-328 and src/unnamed/part_002 126-169.       *)
(***************************************************************************)
C20_NoRetry ==
    (variant \in {"rpc", "csv"} /\ McpExchange) =>
        /\ last.invoked <= 1
        /\ (McpAsync /\ InvocationFailed) =>
               /\ last.invoked = 1
               /\ last.out # << >>

(***************************************************************************)
(* C24: when the shared secret is not configured (MCP_AUTH_TOKEN unset),   *)
(* every request to a path outside the allowlist is answered 401 by the    *)
(* middleware, whatever Authorization header it carries.                   *)
(***************************************************************************)
C24_UnsetSecretRejectsAll ==
    ( /\ HasAuthMiddleware(variant)
      /\ secret = Undefined
      /\ gate.decision # "none"
      /\ gate.path \notin OpenPaths(variant) )
    => ( /\ gate.decision = "reject"
         /\ Len(last.out) = 1
         /\ last.out[1].status = 401 )

\* an envelope that fails validation: jsonrpc is not "2.0", or there is no id
FailsValidation(e) == e.jsonrpc # "2.0" \/ e.id = "absent"

(***************************************************************************)
(* C23: validation precedes routing.  An envelope that fails validation    *)
(* (wrong or missing jsonrpc, or missing id) is never answered with the    *)
(* handshake or the catalog, and its handler never goes to a backend, also *)
(* when its method is initialize, tools/list or tools/call with a          *)
(* registered tool.                                                        *)
(***************************************************************************)
C23_ValidationPrecedesRouting ==
    variant \in {"rpc", "basic", "csv"} =>
        /\ (McpSync /\ FailsValidation(last.env)) =>
              \A i \in 1..Len(last.out) :
                  last.out[i].result.shape \notin {"handshake", "tools"}
        /\ \A e \in Envelopes :
              FailsValidation(e) => McpHandler(variant, e, tools).kind # "await"

\* the exchange of a convenience route, POST /youtube/search or POST /youtube/get
RestExchange == last.route = "rest"

\* the upstream fetch rejected, or its body is no JSON
UpstreamFailed(fr) == fr.net = "fail" \/ fr.body = "garbage"

Expected(k) ==
    CASE k = "a" ->
           [youtube_id |-> <<"ida">>, title |-> <<"G", "o">>,
            url |-> <<"https://www.youtube.com/", "watch?v=", "ida", "&", "t=1">>,
            published_at |-> "2024-01-01", tags |-> << >>]
      [] k = "b" ->
           [youtube_id |-> <<"idb">>, title |-> <<"U">>,
            url |-> <<"https://", "youtu.be/", "idb", "?", "t=1">>,
            published_at |-> "2023-06-01", tags |-> << <<"g", "o">> >>]
      [] k = "c" ->
           [youtube_id |-> << >>, title |-> <<"O", "u">>,
            url |-> <<"https://vimeo.com/", "1">>,
            published_at |-> "2025-03-01", tags |-> << <<"g", "o", "u">> >>]
      [] OTHER ->
           [youtube_id |-> << >>, title |-> << >>, url |-> << >>,
            published_at |-> "", tags |-> << >>]

\* the rows of the sheet whose URL shows no id: no watch?v=, no youtu.be/, or no URL
RowsWithoutId == { n \in 1..Len(sheet) : sheet[n] \in {"c", "junk"} }

\* the call that was answered asks for the record of row n
AskedFor(n) ==
    CASE answer.name = "search_ou_videos" ->
           ContainsQuery(Expected(sheet[n]), answer.args.query)
      [] answer.name = "get_videos_by_sport" ->
           \/ \E t \in 1..Len(Expected(sheet[n]).tags) :
                 Expected(sheet[n]).tags[t] = toLowerCase(answer.args.sport)
           \/ TitleContains(Expected(sheet[n]), answer.args.sport)
      [] OTHER -> TRUE

\* a call that went to the backend was answered with records of the sheet
SheetAnswered ==
    /\ Answered
    /\ answer.fetch.net = "ok" /\ answer.fetch.body = "csv"
    /\ ResultAnswer

(***************************************************************************)
(* C21: loadVideos makes exactly one VideoRecord per parsed row, in row    *)
(* order.  A row whose URL matches neither watch?v= nor youtu.be/, or that *)
(* has no URL, gives a record with an empty id and is not dropped: keyword,*)
(* recency and category queries that ask for it find it, unless the limit  *)
(* has cut the answer.                                                     *)
(***************************************************************************)
C21_OneRecordPerRow ==
    /\ \A i \in 1..Len(flight) :
          (flight[i].pc = "loaded" /\ flight[i].fetch.body = "csv") =>
              heap[flight[i].ref].arr = [n \in 1..Len(sheet) |-> Expected(sheet[n])]
    /\ SheetAnswered =>
          \/ Len(AnsweredItems) = LimitInForce
          \/ \A n \in RowsWithoutId :
                AskedFor(n) =>
                    \E j \in 1..Len(AnsweredItems) :
                        /\ AnsweredItems[j] = Expected(sheet[n])
                        /\ AnsweredItems[j].youtube_id = << >>

\* a keyword search for "u" on a sheet with a row that has no URL and a row whose
\* URL shows no id is answered with the record of the latter, its id empty
C21_Witness ==
    /\ SheetAnswered
    /\ answer.name = "search_ou_videos" /\ answer.args.query = <<"u">>
    /\ \E n, m \in 1..Len(sheet) : sheet[n] = "junk" /\ sheet[m] = "c"
    /\ \E j \in 1..Len(AnsweredItems) :
          AnsweredItems[j].youtube_id = << >> /\ AnsweredItems[j].title = <<"O", "u">>

\* the call carries the argument its tool reads: query for the keyword search,
\* sport for the category search
ArgumentGiven ==
    /\ answer.name = "search_ou_videos" => answer.args.hasQuery
    /\ answer.name = "get_videos_by_sport" => answer.args.hasSport

\* the sheet was fetched: as it is, with rows that lack fields among them, or with
\* one more row that the CSV parser cannot read
SheetFetched ==
    /\ Answered
    /\ answer.fetch.net = "ok" /\ answer.fetch.status = 200
    /\ answer.fetch.body \in {"csv", "badcsv"}

\* what the tool makes of the rows of the sheet that can be read
FromReadableRows ==
    CsvBackend(answer.name, answer.args, [answer.fetch EXCEPT !.body = "csv"])

(***************************************************************************)
(* C22: a malformed record never aborts a dataset query.  When one row of  *)
(* the sheet is bad (it lacks its title, description, publish date or URL, *)
(* or the CSV parser cannot read it), searchVideos, recentVideos and       *)
(* videosBySport still return the results derived from the other rows: the *)
(* call is answered with that result, not with an error.                   *)
(***************************************************************************)
C22_BadRowNeverAborts ==
    (SheetFetched /\ ArgumentGiven) =>
        /\ ResultAnswer
        /\ AnsweredItems = FromReadableRows.value

\* PUBLIC_URL is set: the heartbeat's guard lets it through
PublicUrlSet == publicUrl \notin {Undefined, "s_"}

====
